---- MODULE Spec2Model ----
(***************************************************************************)
(* Acquisition-to-metrics pipeline of the UART capture scripts.            *)
(*                                                                         *)
(*   streaming variant : src/Python_scripts/uart_p3.py                     *)
(*   burst variant     : src/Python_scripts/uart_v4.py                     *)
(*                                                                         *)
(* Bytes are integers 0..255.  Voltages are exact rationals carried as     *)
(* scaled integers (the scale is stated at each operator); IEEE rounding   *)
(* of float32/float64 is not modelled.  Python indices are 0-based and     *)
(* are kept 0-based in every index the program reports (peak indices).     *)
(***************************************************************************)
EXTENDS Integers, Sequences, FiniteSets, TLC

(***************************************************************************)
(* Bounds of the model.                                                    *)
(***************************************************************************)
\* uart_p3.py TOTAL_SAMPLES is 6000 = 2 * 3000 interleaved codes; the model
\* carries 2 * StreamPairs codes per frame.
StreamPairs == 1
\* uart_v4.py TOTAL_SAMPLES is 20000; the model carries BurstSamples codes.
BurstSamples == 2
\* uart_v4.py N_CAPTURES is 4; the model captures BurstCaptures bursts.
BurstCaptures == 2
\* uart_p3.py MOVING_AVG_WINDOW is 20; the model's window.
AvgWindow == 1
\* Pieces of output the device sends in one run.
MaxEmit == 5
\* uart_p3_v3.py SAVGOL_WINDOW is 101 = 2 * 50 + 1; the model's window is
\* 2 * SavgolHalf + 1.
SavgolHalf == 2
\* Frames the device sends to the Savitzky-Golay script in one run.
SavgolCycles == 2

(***************************************************************************)
(* Program constants.                                                      *)
(***************************************************************************)
SAMPLING_RATE == 100
MIN_DISTANCE_SAMPLES == 40
MIN_PROMINENCE == 100
NOISE_DEADBAND == 100
FULL_SCALE_MV == 3300
MAX_CODE == 4095
CENTER_MV == 1650
SAVGOL_POLYORDER == 3
FILTER_ORDER == 4
\* uart_p3_v2.py CUTOFF_FREQ is 0.6 Hz, held in tenths of a hertz.
CUTOFF_FREQ == 6

TOTAL_SAMPLES(v) == IF v = "stream" THEN 2 * StreamPairs ELSE BurstSamples
MOVING_AVG_WINDOW == AvgWindow
N_CAPTURES == BurstCaptures
SAVGOL_WINDOW == 2 * SavgolHalf + 1

(***************************************************************************)
(* Generic sequence helpers.                                               *)
(***************************************************************************)
Min2(a, b) == IF a <= b THEN a ELSE b
Max2(a, b) == IF a >= b THEN a ELSE b
Abs(a) == IF a < 0 THEN -a ELSE a
Take(s, n) == SubSeq(s, 1, Min2(n, Len(s)))
Drop(s, n) == SubSeq(s, Min2(n, Len(s)) + 1, Len(s))

RECURSIVE SumSeq(_)
SumSeq(s) == IF s = <<>> THEN 0 ELSE s[1] + SumSeq(Tail(s))

(***************************************************************************)
(* Text handling of the token wait.                                        *)
(***************************************************************************)
LF == 10
START == <<83, 84, 65, 82, 84>>

\* bytes.decode('utf-8', errors='ignore'), as the code points of the text.
\* Utf8Need: the continuation bytes a lead byte asks for, -1 for a byte that
\* cannot start a sequence.
Utf8Need(b) ==
    IF b < 128 THEN 0
    ELSE IF b >= 194 /\ b <= 223 THEN 1
    ELSE IF b >= 224 /\ b <= 239 THEN 2
    ELSE IF b >= 240 /\ b <= 244 THEN 3
    ELSE -1

\* The k-th continuation byte c may follow lead byte b: 0x80..0xBF, narrowed
\* for the first one after E0, ED, F0 and F4 (no overlong forms, no
\* surrogates, nothing above U+10FFFF).
Utf8Continues(b, k, c) ==
    IF k > 1 THEN c >= 128 /\ c <= 191
    ELSE CASE b = 224 -> c >= 160 /\ c <= 191
           [] b = 237 -> c >= 128 /\ c <= 159
           [] b = 240 -> c >= 144 /\ c <= 191
           [] b = 244 -> c >= 128 /\ c <= 143
           [] OTHER -> c >= 128 /\ c <= 191

\* How many of the bytes after the lead byte continue its sequence.
RECURSIVE Utf8Run(_, _, _)
Utf8Run(bytes, need, k) ==
    IF k > need \/ k + 1 > Len(bytes) \/ ~Utf8Continues(bytes[1], k, bytes[k + 1])
    THEN k - 1
    ELSE Utf8Run(bytes, need, k + 1)

Utf8CodePoint(bytes, need) ==
    CASE need = 0 -> bytes[1]
      [] need = 1 -> (bytes[1] - 192) * 64 + (bytes[2] - 128)
      [] need = 2 -> (bytes[1] - 224) * 4096 + (bytes[2] - 128) * 64
                         + (bytes[3] - 128)
      [] need = 3 -> (bytes[1] - 240) * 262144 + (bytes[2] - 128) * 4096
                         + (bytes[3] - 128) * 64 + (bytes[4] - 128)

\* A whole sequence gives its character; a byte that starts none is
\* dropped; a sequence cut short by a wrong byte or by the end of the data
\* is dropped up to that point and decoding goes on from the wrong byte.
RECURSIVE decode(_)
decode(bytes) ==
    IF bytes = <<>> THEN <<>>
    ELSE LET need == Utf8Need(bytes[1])
             run == Utf8Run(bytes, need, 1)
         IN  IF need = -1 THEN decode(Tail(bytes))
             ELSE IF run = need
             THEN <<Utf8CodePoint(bytes, need)>> \o decode(Drop(bytes, need + 1))
             ELSE decode(Drop(bytes, run + 1))

\* str.strip(): the characters str.isspace() accepts.
IsSpace(c) ==
    \/ c \in {9, 10, 11, 12, 13, 28, 29, 30, 31, 32, 133, 160, 5760}
    \/ c >= 8192 /\ c <= 8202
    \/ c \in {8232, 8233, 8239, 8287, 12288}

strip(text) ==
    LET keep == {i \in 1..Len(text) : ~IsSpace(text[i])}
    IN  IF keep = {} THEN <<>>
        ELSE LET lo == CHOOSE i \in keep : \A j \in keep : i <= j
                 hi == CHOOSE i \in keep : \A j \in keep : j <= i
             IN  SubSeq(text, lo, hi)

\* line == "START" of the wait loop, on the bytes readline() returned.
IsStartNoStrip(raw) == decode(raw) = START
IsStart(raw) == strip(decode(raw)) = START

(***************************************************************************)
(* pyserial: the receive side of the port.                                 *)
(***************************************************************************)
HasLF(s) == \E i \in 1..Len(s) : s[i] = LF
FirstLF(s) == CHOOSE i \in 1..Len(s) : s[i] = LF /\ \A j \in 1..(i - 1) : s[j] # LF

\* Serial.readline(): the bytes up to and including the first LF; when the
\* port has a timeout and no LF arrives in time, the bytes received so far.
readline(s) == IF HasLF(s) THEN Take(s, FirstLF(s)) ELSE s

\* Serial.read(n): at most n bytes, fewer when the timeout expires first.
read(s, n) == Take(s, n)

(***************************************************************************)
(* Demultiplexing and conversion.                                          *)
(***************************************************************************)
ValueError == <<-1>>

\* np.frombuffer(data, dtype=np.uint16): little-endian 16-bit codes; a buffer
\* whose size is not a multiple of the element size raises ValueError.
frombuffer(data) ==
    IF Len(data) % 2 # 0 THEN ValueError
    ELSE [i \in 1..(Len(data) \div 2) |-> data[2 * i - 1] + 256 * data[2 * i]]

\* a[::2] and a[1::2]
EvenSlice(a) == [i \in 1..((Len(a) + 1) \div 2) |-> a[2 * i - 1]]
OddSlice(a) == [i \in 1..(Len(a) \div 2) |-> a[2 * i]]

\* (adc.astype(float32) * 3300) / 4095, in units of 1/4095 mV.
Volts(adc) == [i \in 1..Len(adc) |-> adc[i] * FULL_SCALE_MV]
\* 2 * 1650 - v, in units of 1/4095 mV.
Mirror(v) == [i \in 1..Len(v) |-> 2 * CENTER_MV * MAX_CODE - v[i]]

(***************************************************************************)
(* Exact rationals <<num, den>>, den > 0, in lowest terms.                 *)
(***************************************************************************)
RECURSIVE GCD(_, _)
GCD(a, b) == IF b = 0 THEN Abs(a) ELSE GCD(b, a % b)

Frac(n, d) ==
    LET g == GCD(Abs(n), Abs(d))
        sg == IF d < 0 THEN -1 ELSE 1
    IN  <<sg * (n \div g), sg * (d \div g)>>
FracAdd(p, q) == Frac(p[1] * q[2] + q[1] * p[2], p[2] * q[2])

RECURSIVE FracSum(_)
FracSum(fs) == IF fs = <<>> THEN <<0, 1>> ELSE FracAdd(fs[1], FracSum(Tail(fs)))

\* np.mean of a non-empty sequence of rationals.
FracMean(fs) == LET t == FracSum(fs) IN Frac(t[1], t[2] * Len(fs))

\* f"{x:.2f}" for the double x the script computed where the exact value is
\* p: the hundredths it may print.  The text is the correctly rounded
\* decimal of the double, and the double is within rounding error of p.
\* Away from a decimal tie that is p rounded to the nearest hundredth.  At a
\* tie (p = k.xx5) the double lies on either side of p, by the error of
\* its binary representation and of the divisions and the mean before it
\* (0.005 prints 0.01, 74.975 prints 74.97), so either neighbour may show.
Hundredths(p) ==
    LET n == p[1] * 100
        q == n \div p[2]
        r == n % p[2]
    IN  IF 2 * r = p[2] THEN {q, q + 1}
        ELSE IF 2 * r > p[2] THEN {q + 1} ELSE {q}

(***************************************************************************)
(* SignalConditioner: moving average (uart_p3.py) and dead band (uart_v4). *)
(***************************************************************************)
\* np.convolve(signal, np.ones(W)/W, mode='valid'), in units of 1/W of the
\* unit of signal.  np.convolve swaps its operands when the kernel is the
\* longer one, so the result has max(L, W) - min(L, W) + 1 elements; an
\* empty operand raises ValueError.
moving_average(signal, window_size) ==
    LET L == Len(signal)
        W == window_size
    IN  IF L = 0 \/ W = 0 THEN ValueError
        ELSE IF L >= W
             THEN [k \in 1..(L - W + 1) |-> SumSeq(SubSeq(signal, k, k + W - 1))]
             ELSE [k \in 1..(W - L + 1) |-> SumSeq(signal)]

\* filter_voltage(v, thresh): the array after the call, for v in units of
\* 1/4095 mV; the result is in units of 1/(4095 * len(v)) mV, which makes
\* the mean the integer sum(v).
filter_voltage(v, thresh) ==
    LET n == Len(v)
        mean == SumSeq(v)
    IN  [i \in 1..n |-> IF Abs(n * v[i] - mean) <= thresh * MAX_CODE * n
                        THEN mean ELSE n * v[i]]

(***************************************************************************)
(* SignalConditioner: scipy.signal.savgol_filter (uart_p3_v3.py), for an   *)
(* odd window and a polynomial order of at most 3.                         *)
(***************************************************************************)
\* The orthogonal polynomial of degree k on the points -h..h: the basis of
\* the least-squares fit savgol_filter makes in each window.
GramPoly(h, k, t) ==
    CASE k = 0 -> 1
      [] k = 1 -> t
      [] k = 2 -> 3 * t * t - h * (h + 1)
      [] k = 3 -> 5 * t * t * t - (3 * h * h + 3 * h - 1) * t

GramNorm(h, k) ==
    SumSeq([n \in 1..(2 * h + 1) |->
               GramPoly(h, k, n - h - 1) * GramPoly(h, k, n - h - 1)])

\* The weight of the window's sample at offset j in the fitted value at
\* offset i, an exact rational.
HatEntry(h, polyorder, i, j) ==
    FracSum([k \in 1..(polyorder + 1) |->
                Frac(GramPoly(h, k - 1, i) * GramPoly(h, k - 1, j),
                     GramNorm(h, k - 1))])

LCM(a, b) == (a \div GCD(a, b)) * b

RECURSIVE LcmSet(_)
LcmSet(S) ==
    IF S = {} THEN 1
    ELSE LET a == CHOOSE b \in S : TRUE IN LCM(a, LcmSet(S \ {a}))

\* The common denominator of the weights of a window of 2h+1 samples.
HatDen(h, polyorder) ==
    LcmSet({HatEntry(h, polyorder, i, j)[2] : i \in (-h)..h, j \in (-h)..h})

\* The weights of a window of 2h+1 samples as integers over HatDen.
SavgolWeights(h, polyorder) ==
    LET D == HatDen(h, polyorder)
    IN  [i \in (-h)..h |->
            [j \in (-h)..h |->
                LET e == HatEntry(h, polyorder, i, j) IN e[1] * (D \div e[2])]]

\* The weights and their denominator for the script's window and order.
SavgolTable == SavgolWeights(SAVGOL_WINDOW \div 2, SAVGOL_POLYORDER)
SavgolUnit == HatDen(SAVGOL_WINDOW \div 2, SAVGOL_POLYORDER)

\* savgol_filter(x, window_length=, polyorder=) with the default
\* mode='interp', in units of 1/HatDen of the unit of x: the value of the
\* polynomial fitted to the window centred on the sample, and near either
\* end the value of the polynomial fitted to the first or last window.  It
\* raises ValueError when the order is not below the window length or the
\* window is longer than x.
savgol_filter(x, window_length, polyorder) ==
    LET L == Len(x)
        h == window_length \div 2
        wt == IF window_length = SAVGOL_WINDOW /\ polyorder = SAVGOL_POLYORDER
              THEN SavgolTable ELSE SavgolWeights(h, polyorder)
        row(n) == IF n <= h THEN n - h - 1
                  ELSE IF n > L - h THEN n - (L - h) ELSE 0
        first(n) == IF n <= h THEN 1
                    ELSE IF n > L - h THEN L - window_length + 1 ELSE n - h
    IN  IF polyorder >= window_length \/ window_length > L THEN ValueError
        ELSE [n \in 1..L |->
                 SumSeq([m \in 1..window_length |->
                            wt[row(n)][m - h - 1] * x[first(n) + m - 1]])]

(***************************************************************************)
(* SignalConditioner: lowpass_filter (uart_p3_v2.py).                      *)
(***************************************************************************)
\* lowpass_filter(data, cutoff, fs, order), cutoff in tenths of a hertz.
\* butter raises ValueError unless 0 < cutoff / (fs / 2) < 1, and filtfilt
\* raises it unless data is longer than padlen = 3 * (order + 1).  What is
\* returned is a new array of len(data) samples; its values are sums of
\* the data under weights that are not rational, so it is carried as the
\* term filtfilt(butter(order, cutoff, fs), data).
lowpass_filter(data, cutoff, fs, order) ==
    IF ~(0 < 2 * cutoff /\ 2 * cutoff < 10 * fs) THEN ValueError
    ELSE IF Len(data) <= 3 * (order + 1) THEN ValueError
    ELSE [filtfilt |-> data, order |-> order, cutoff |-> cutoff, fs |-> fs,
          samples |-> Len(data)]

(***************************************************************************)
(* PeakDetector: scipy.signal.find_peaks(x, distance=, prominence=).       *)
(* Indices are 0-based: Python x[k] is x[k + 1] here.                      *)
(***************************************************************************)
RECURSIVE SortedSeq(_)
SortedSeq(S) ==
    IF S = {} THEN <<>>
    ELSE LET m == CHOOSE a \in S : \A b \in S : a <= b
         IN  <<m>> \o SortedSeq(S \ {m})

\* _local_maxima_1d: the midpoint of every plateau that is strictly higher
\* than the sample before it and the sample after it; the first and the
\* last sample are never maxima.
local_maxima_1d(x) ==
    LET n == Len(x)
        plateaus == {lr \in (1..(n - 2)) \X (1..(n - 2)) :
                        /\ lr[1] <= lr[2]
                        /\ x[lr[1]] < x[lr[1] + 1]
                        /\ \A k \in lr[1]..lr[2] : x[k + 1] = x[lr[1] + 1]
                        /\ x[lr[2] + 2] < x[lr[2] + 1]}
    IN  SortedSeq({(lr[1] + lr[2]) \div 2 : lr \in plateaus})

\* np.argsort(priority): the orders argsort may return, every permutation
\* of the positions that lists the priorities in ascending order (the
\* default sort is not stable, so equal priorities come in any order).
ArgSorts(priority) ==
    LET n == Len(priority)
    IN  {p \in [1..n -> 1..n] :
            /\ \A i, j \in 1..n : i # j => p[i] # p[j]
            /\ \A i \in 1..(n - 1) : priority[p[i]] <= priority[p[i + 1]]}

\* The loop of _select_by_peak_distance from position i of the order down:
\* a peak still kept removes every peak closer than distance.
RECURSIVE SelectLoop(_, _, _, _, _)
SelectLoop(peaks, order, distance, i, keep) ==
    IF i = 0 THEN keep
    ELSE LET j == order[i]
         IN  IF ~keep[j] THEN SelectLoop(peaks, order, distance, i - 1, keep)
             ELSE SelectLoop(peaks, order, distance, i - 1,
                     [k \in 1..Len(peaks) |->
                         IF k # j /\ Abs(peaks[k] - peaks[j]) < distance
                         THEN FALSE ELSE keep[k]])

\* _select_by_peak_distance(peaks, priority, distance), priority given by
\* its argsort: the keep mask.
select_by_peak_distance(peaks, order, distance) ==
    SelectLoop(peaks, order, distance, Len(peaks), [k \in 1..Len(peaks) |-> TRUE])

\* _peak_prominences (wlen = -1) for one peak: its height above the higher
\* of the two minima found walking left and right while samples are not
\* higher than the peak.
LeftMin(x, peak) ==
    LET stop == {i \in 0..peak : x[i + 1] > x[peak + 1]}
        from == IF stop = {} THEN 0
                ELSE (CHOOSE i \in stop : \A j \in stop : j <= i) + 1
        vals == {x[i + 1] : i \in from..peak}
    IN  CHOOSE v \in vals : \A w \in vals : v <= w
RightMin(x, peak) ==
    LET stop == {i \in peak..(Len(x) - 1) : x[i + 1] > x[peak + 1]}
        upto == IF stop = {} THEN Len(x) - 1
                ELSE (CHOOSE i \in stop : \A j \in stop : i <= j) - 1
        vals == {x[i + 1] : i \in peak..upto}
    IN  CHOOSE v \in vals : \A w \in vals : v <= w
peak_prominence(x, peak) == x[peak + 1] - Max2(LeftMin(x, peak), RightMin(x, peak))

Heights(x, peaks) == [k \in 1..Len(peaks) |-> x[peaks[k] + 1]]

\* The peaks a keep mask leaves, in index order.
Kept(peaks, keep) == SortedSeq({peaks[k] : k \in {k \in 1..Len(peaks) : keep[k]}})

\* find_peaks without the spacing filter (not what scipy does).
find_peaks_unspaced(x, distance, prominence, order) ==
    IF distance < 1 THEN ValueError
    ELSE SelectSeq(local_maxima_1d(x), LAMBDA p : prominence <= peak_prominence(x, p))

\* find_peaks with the prominence test first and the spacing filter
\* prioritised by prominence (not what scipy does).
find_peaks_by_prominence(x, distance, prominence, order) ==
    IF distance < 1 THEN ValueError
    ELSE LET all == local_maxima_1d(x)
             qual == SelectSeq(all, LAMBDA p : prominence <= peak_prominence(x, p))
             prio == [k \in 1..Len(qual) |-> peak_prominence(x, qual[k])]
             by_prio == CHOOSE o \in ArgSorts(prio) : TRUE
         IN  Kept(qual, select_by_peak_distance(qual, by_prio, distance))

\* find_peaks(x, distance=distance, prominence=prominence)[0] when argsort
\* returns `order` for the heights of the local maxima: the maxima, then the
\* spacing filter prioritised by height, then the prominence filter.  A
\* distance below 1 raises ValueError.
find_peaks(x, distance, prominence, order) ==
    IF distance < 1 THEN ValueError
    ELSE LET all == local_maxima_1d(x)
             spaced == Kept(all, select_by_peak_distance(all, order, distance))
         IN  SelectSeq(spaced, LAMBDA p : prominence <= peak_prominence(x, p))

\* The orders find_peaks may get from argsort for series x.
PeakOrders(x) == ArgSorts(Heights(x, local_maxima_1d(x)))

(***************************************************************************)
(* RateEstimator: estimate_bpm.                                            *)
(***************************************************************************)
NoRate == <<0, 0>>

\* np.linspace(0, sample_count / SAMPLING_RATE, sample_count) in ticks of
\* 1 / TicksPerSecond(sample_count) seconds.
TicksPerSecond(sample_count) == SAMPLING_RATE * Max2(sample_count - 1, 1)
linspace_axis(sample_count) == [i \in 1..sample_count |-> (i - 1) * sample_count]

\* s[:n] of Python, n of either sign.
SliceTo(s, n) == IF n >= 0 THEN Take(s, n) ELSE Take(s, Max2(Len(s) + n, 0))

Diff(s) == [k \in 1..(Len(s) - 1) |-> s[k + 1] - s[k]]

\* np.mean(60 / periods) written as 60 over the mean period (not the code).
MeanOfPeriods(periods, ticks_per_second) ==
    Frac(60 * ticks_per_second * Len(periods), SumSeq(periods))

\* np.mean(60 / np.diff(peak_times)) for positive periods given in ticks.
MeanRate(periods, ticks_per_second) ==
    FracMean([k \in 1..Len(periods) |-> Frac(60 * ticks_per_second, periods[k])])

\* estimate_bpm(peaks, time_axis, label): what it prints.  time_axis[peaks]
\* raises IndexError, before anything is printed, when a peak index is not
\* an index of time_axis.  The axis is strictly increasing and so are the
\* peaks find_peaks returns, so every period is positive.
estimate_bpm(peaks, time_axis, ticks_per_second) ==
    IF \E k \in 1..Len(peaks) : peaks[k] >= Len(time_axis)
    THEN [raised |-> TRUE, count |-> -1, not_enough |-> FALSE,
          avg_bpm |-> NoRate, shown |-> {}]
    ELSE LET peak_times == [k \in 1..Len(peaks) |-> time_axis[peaks[k] + 1]]
         IN  IF Len(peaks) >= 2
             THEN LET avg == MeanRate(Diff(peak_times), ticks_per_second)
                  IN  [raised |-> FALSE, count |-> Len(peaks), not_enough |-> FALSE,
                       avg_bpm |-> avg, shown |-> Hundredths(avg)]
             ELSE [raised |-> FALSE, count |-> Len(peaks), not_enough |-> TRUE,
                   avg_bpm |-> NoRate, shown |-> {}]

(***************************************************************************)
(* One cycle of the streaming variant after the frame has been read.       *)
(***************************************************************************)
NoReport == [raised |-> FALSE, printed |-> FALSE]

\* np.mean(v_smooth[peaks]) when there are peaks, in the unit of v_smooth.
AvgPeak(v_smooth, peaks) ==
    IF Len(peaks) > 0
    THEN Frac(SumSeq([k \in 1..Len(peaks) |-> v_smooth[peaks[k] + 1]]), Len(peaks))
    ELSE NoRate

\* acquire_and_plot_voltages from np.frombuffer to the plot refresh; order1
\* and order2 are what argsort returns inside the two find_peaks calls.
\* v_smooth is in units of 1/(4095 * W) mV, and so is the prominence.
StreamCycle(data, order1, order2) ==
    LET adc_array == frombuffer(data)
        adc1 == EvenSlice(adc_array)
        adc2 == OddSlice(adc_array)
        v_adc1 == Volts(adc1)
        v_adc2 == Mirror(Volts(adc2))
        sample_count == TOTAL_SAMPLES("stream") \div 2
        time_axis == linspace_axis(sample_count)
        time_smooth == SliceTo(time_axis, sample_count - MOVING_AVG_WINDOW + 1)
        v_smooth1 == moving_average(v_adc1, MOVING_AVG_WINDOW)
        v_smooth2 == moving_average(v_adc2, MOVING_AVG_WINDOW)
        prom == MIN_PROMINENCE * MAX_CODE * MOVING_AVG_WINDOW
        peaks1 == find_peaks(v_smooth1, MIN_DISTANCE_SAMPLES, prom, order1)
        peaks2 == find_peaks(v_smooth2, MIN_DISTANCE_SAMPLES, prom, order2)
        bpm1 == estimate_bpm(peaks1, time_smooth, TicksPerSecond(sample_count))
        bpm2 == estimate_bpm(peaks2, time_smooth, TicksPerSecond(sample_count))
    IN  IF adc_array = ValueError \/ v_smooth1 = ValueError \/ v_smooth2 = ValueError
        THEN [raised |-> TRUE, printed |-> FALSE]
        ELSE IF bpm1.raised \/ bpm2.raised
        THEN [raised |-> TRUE, printed |-> TRUE,
              csv_rows |-> Min2(Min2(Len(v_adc1), Len(v_adc2)),
                                Min2(Len(v_smooth1), Len(v_smooth2)))]
        ELSE [raised |-> FALSE, printed |-> TRUE,
              csv_rows |-> Min2(Min2(Len(v_adc1), Len(v_adc2)),
                                Min2(Len(v_smooth1), Len(v_smooth2))),
              peaks1 |-> peaks1, peaks2 |-> peaks2,
              bpm1 |-> bpm1, bpm2 |-> bpm2,
              avg_peak_v1 |-> AvgPeak(v_smooth1, peaks1),
              avg_peak_v2 |-> AvgPeak(v_smooth2, peaks2),
              raw1 |-> v_adc1, raw2 |-> v_adc2,
              smooth1 |-> v_smooth1, smooth2 |-> v_smooth2]

(***************************************************************************)
(* One cycle of the Savitzky-Golay variant (uart_p3_v3.py) after the frame *)
(* has been read.                                                          *)
(***************************************************************************)
NoSavgolReport ==
    [raised |-> FALSE, reported |-> FALSE, exported |-> FALSE,
     printed |-> FALSE, plotted |-> FALSE]

\* v_smooth is in units of 1/(4095 * SavgolUnit) mV.

\* acquire_and_plot_voltages of uart_p3_v3.py from np.frombuffer to the plot
\* refresh, for a script configured with TOTAL_SAMPLES = total_samples.
\* Only len(v_adc1) is compared with SAVGOL_WINDOW; savgol_filter raises
\* ValueError on a v_adc2 shorter than the window.  Drawing a line whose x
\* and y data differ in length raises too.
SavgolCycle(data, total_samples, order1, order2) ==
    LET adc_array == frombuffer(data)
        adc1 == EvenSlice(adc_array)
        adc2 == OddSlice(adc_array)
        v_adc1 == Volts(adc1)
        v_adc2 == Mirror(Volts(adc2))
        sample_count == total_samples \div 2
        time_axis == linspace_axis(sample_count)
        v_smooth1 == savgol_filter(v_adc1, SAVGOL_WINDOW, SAVGOL_POLYORDER)
        v_smooth2 == savgol_filter(v_adc2, SAVGOL_WINDOW, SAVGOL_POLYORDER)
        prom == MIN_PROMINENCE * MAX_CODE * SavgolUnit
        peaks1 == find_peaks(v_smooth1, MIN_DISTANCE_SAMPLES, prom, order1)
        peaks2 == find_peaks(v_smooth2, MIN_DISTANCE_SAMPLES, prom, order2)
        bpm1 == estimate_bpm(peaks1, time_axis, TicksPerSecond(sample_count))
        bpm2 == estimate_bpm(peaks2, time_axis, TicksPerSecond(sample_count))
        csv_rows == Min2(Min2(Len(v_adc1), Len(v_adc2)),
                         Min2(Len(v_smooth1), Len(v_smooth2)))
        drawable == /\ Len(time_axis) = Len(v_adc1)
                    /\ Len(time_axis) = Len(v_adc2)
                    /\ Len(time_axis) > 0
    IN  IF adc_array = ValueError
        THEN [NoSavgolReport EXCEPT !.raised = TRUE]
        ELSE IF Len(v_adc1) < SAVGOL_WINDOW
        THEN [NoSavgolReport EXCEPT !.reported = TRUE]
        ELSE IF v_smooth1 = ValueError \/ v_smooth2 = ValueError
        THEN [NoSavgolReport EXCEPT !.raised = TRUE]
        ELSE IF bpm1.raised \/ bpm2.raised
        THEN [raised |-> TRUE, reported |-> FALSE, exported |-> TRUE,
              printed |-> FALSE, plotted |-> FALSE, csv_rows |-> csv_rows]
        ELSE [raised |-> ~drawable, reported |-> FALSE, exported |-> TRUE,
              printed |-> TRUE, plotted |-> drawable, csv_rows |-> csv_rows,
              peaks1 |-> peaks1, peaks2 |-> peaks2,
              bpm1 |-> bpm1, bpm2 |-> bpm2,
              avg_peak_v1 |-> AvgPeak(v_smooth1, peaks1),
              avg_peak_v2 |-> AvgPeak(v_smooth2, peaks2),
              raw1 |-> v_adc1, raw2 |-> v_adc2,
              smooth1 |-> v_smooth1, smooth2 |-> v_smooth2]

(***************************************************************************)
(* One burst of the burst variant after its bytes have been read.          *)
(***************************************************************************)
\* np.argmax(np.abs(v)): the first index of the greatest magnitude, 0-based.
ArgMaxAbs(v) ==
    (CHOOSE i \in 1..Len(v) :
        /\ \A j \in 1..Len(v) : Abs(v[j]) <= Abs(v[i])
        /\ \A j \in 1..(i - 1) : Abs(v[j]) < Abs(v[i])) - 1
SeqMax(v) == CHOOSE a \in {v[i] : i \in 1..Len(v)} : \A i \in 1..Len(v) : v[i] <= a
SeqMin(v) == CHOOSE a \in {v[i] : i \in 1..Len(v)} : \A i \in 1..Len(v) : a <= v[i]

\* np.hanning(M) for the frame lengths the model carries.
hanning(M) ==
    CASE M = 1 -> <<1>>
      [] M = 2 -> <<0, 0>>
      [] M = 3 -> <<0, 1, 0>>

\* np.fft.fft(x)[:len(x)//2] for frames of up to 3 samples: no bin for one
\* sample, else bin 0 alone, which is the sum of x.
OneSided(x) == IF Len(x) \div 2 = 0 THEN <<>> ELSE <<SumSeq(x)>>

\* a * a for 0 <= a < 2^20 as <<hi, lo>>, the number hi * 2^20 + lo.
Square(a) ==
    LET a1 == a \div 1024
        a0 == a % 1024
        mid == 2 * a1 * a0
        t == (mid % 1024) * 1024 + a0 * a0
    IN  <<a1 * a1 + mid \div 1024 + t \div 1048576, t % 1048576>>

\* acquire_one_burst from np.frombuffer on: the tuple it returns, or the
\* ValueError of mag_dB.max() on a spectrum without bins (a frame of one
\* sample) or of np.frombuffer.  With n = len(v_filt): v_filt, pp and
\* peak_val are in units of 1/(4095 * n) mV, peak_time in samples, f_axis
\* and res_freq in units of SAMPLING_RATE / n Hz, total_E (the square of
\* the one bin) in units of (3300 / (4095 * n * n) mV) squared.  mag_dB of
\* a single bin is that bin less itself.
BurstRecord(buf) ==
    LET adc == frombuffer(buf)
        n == Len(adc)
        v_filt == filter_voltage(Volts(adc), NOISE_DEADBAND)
        x == [i \in 1..n |-> (n * v_filt[i] - SumSeq(v_filt)) * hanning(n)[i]]
        one == OneSided(x)
        f_axis == [k \in 1..Len(one) |-> k - 1]
        res_idx == ArgMaxAbs(one)
    IN  IF adc = ValueError \/ Len(one) = 0
        THEN [raised |-> TRUE]
        ELSE [raised |-> FALSE,
              v_filt |-> v_filt,
              f_axis |-> f_axis,
              mag_dB |-> [k \in 1..Len(one) |-> 0],
              total_E |-> Square(Abs(one[1]) \div FULL_SCALE_MV),
              res_freq |-> f_axis[res_idx + 1],
              pp |-> SeqMax(v_filt) - SeqMin(v_filt),
              peak_val |-> v_filt[ArgMaxAbs(v_filt) + 1],
              peak_time |-> ArgMaxAbs(v_filt)]

(***************************************************************************)
(* The acquisition loops as a state machine.                               *)
(***************************************************************************)
VARIABLES
    variant,    \* "stream" (uart_p3.py) or "burst" (uart_v4.py)
    pc,         \* where the script is
    port_open,  \* the serial port handle ser is open
    rx,         \* bytes the port has received and the script has not read
    line,       \* the bytes the last readline() of this cycle returned
    chunk,      \* the bytes the last read() of this cycle returned
    buf,        \* buf (uart_v4.py) or data (uart_p3.py): the frame so far
    acc,        \* the list the comprehension of uart_v4.py is building
    records,    \* records of uart_v4.py, <<>> while it is unbound
    rendered,   \* the records the plotting loop of uart_v4.py has drawn
    out,        \* what the last completed streaming cycle reported
    stalled,    \* the transport fell silent during this cycle's frame read
    tainted,    \* the cycle that produced out had stalled
    sent,       \* history: pieces the device has sent
    discarded,  \* history: the last line this cycle's wait loop discarded
    wire,       \* history: the bytes that followed the START line
    tokens,     \* history: START lines consumed by the burst session
    frames,     \* history: the frames the burst session handed on, in order
    input,      \* the arguments of the function under study
    applied,    \* the function under study has been called
    result      \* what the call returned

acq_vars == <<variant, pc, port_open, rx, line, chunk, buf, acc, records,
              rendered, out, stalled, tainted, sent, discarded, wire, tokens,
              frames>>

fn_vars == <<input, applied, result>>

NoLine == <<-1>>
need == 2 * TOTAL_SAMPLES(variant)

\* What the device may put on the wire in one go.
SegStart == START \o <<LF>>
\* An undecodable byte, a no-break space, START, CR LF: the text is START.
SegNoisy == <<255, 194, 160>> \o START \o <<13, LF>>
\* The letter e with acute accent in front of START: the text is not START.
SegJunk == <<195, 169>> \o START \o <<LF>>
SegByte == <<7>>
\* Two codes, 256 and 4095.
SegCode == <<0, 1, 255, 15>>
Segments == {SegStart, SegNoisy, SegJunk, SegByte, SegCode}

AcqInit ==
    /\ variant \in {"stream", "burst"}
    /\ pc = "wait"
    /\ port_open = TRUE
    /\ rx = <<>>
    /\ line = NoLine
    /\ chunk = <<>>
    /\ buf = <<>>
    /\ acc = <<>>
    /\ records = <<>>
    /\ rendered = <<>>
    /\ out = NoReport
    /\ stalled = FALSE
    /\ tainted = FALSE
    /\ sent = 0
    /\ discarded = NoLine
    /\ wire = <<>>
    /\ tokens = 0
    /\ frames = <<>>

\* The device sends seg; the port buffers it.
Emit(seg) ==
    /\ port_open
    /\ pc \in {"wait", "read", "process"}
    /\ sent < MaxEmit
    /\ sent' = sent + 1
    /\ rx' = rx \o seg
    /\ wire' = IF pc = "read" THEN wire \o seg ELSE wire
    /\ UNCHANGED fn_vars
    /\ UNCHANGED <<variant, pc, port_open, line, chunk, buf, acc, records,
                   rendered, out, stalled, tainted, discarded, tokens, frames>>

\* One pass of the wait loop on the line readline() returned.
TokenStep(l) ==
    /\ line' = l
    /\ rx' = Drop(rx, Len(l))
    /\ pc' = IF IsStart(l) THEN "read" ELSE "wait"
    /\ wire' = IF IsStart(l) THEN Drop(rx, Len(l)) ELSE wire
    /\ discarded' = IF IsStart(l) THEN discarded ELSE l

\* uart_p3.py: the port has no timeout, readline() returns at a line end.
StreamWaitForStart ==
    /\ variant = "stream"
    /\ pc = "wait"
    /\ HasLF(rx)
    /\ TokenStep(readline(rx))
    /\ UNCHANGED fn_vars
    /\ UNCHANGED <<variant, port_open, chunk, buf, acc, records, rendered,
                   out, stalled, tainted, sent, tokens, frames>>

\* uart_p3.py: ser.read(total_bytes) on a port without timeout waits; the
\* transport delivering nothing more while it waits is a stall.
StreamStall ==
    /\ variant = "stream"
    /\ pc = "read"
    /\ Len(rx) < need
    /\ ~stalled
    /\ stalled' = TRUE
    /\ UNCHANGED fn_vars
    /\ UNCHANGED <<variant, pc, port_open, rx, line, chunk, buf, acc, records,
                   rendered, out, tainted, sent, discarded, wire, tokens, frames>>

\* uart_p3.py: data = ser.read(total_bytes) returns once total_bytes bytes
\* have arrived.
StreamRead ==
    /\ variant = "stream"
    /\ pc = "read"
    /\ Len(rx) >= need
    /\ chunk' = read(rx, need)
    /\ buf' = chunk'
    /\ rx' = Drop(rx, need)
    /\ pc' = "process"
    /\ UNCHANGED fn_vars
    /\ UNCHANGED <<variant, port_open, line, acc, records, rendered, out,
                   stalled, tainted, sent, discarded, wire, tokens, frames>>

StreamSmooth1(data) ==
    moving_average(Volts(EvenSlice(frombuffer(data))), MOVING_AVG_WINDOW)
StreamSmooth2(data) ==
    moving_average(Mirror(Volts(OddSlice(frombuffer(data)))), MOVING_AVG_WINDOW)

\* uart_p3.py: the rest of acquire_and_plot_voltages, and the main loop
\* calling it again; an exception ends the script.
StreamProcess ==
    /\ variant = "stream"
    /\ pc = "process"
    /\ \E o1 \in PeakOrders(StreamSmooth1(buf)), o2 \in PeakOrders(StreamSmooth2(buf)) :
          /\ out' = StreamCycle(buf, o1, o2)
          /\ pc' = IF out'.raised THEN "crashed" ELSE "wait"
    /\ tainted' = stalled
    /\ stalled' = FALSE
    /\ line' = NoLine
    /\ discarded' = NoLine
    /\ chunk' = <<>>
    /\ buf' = <<>>
    /\ wire' = <<>>
    /\ UNCHANGED fn_vars
    /\ UNCHANGED <<variant, port_open, rx, acc, records, rendered, sent, tokens,
                   frames>>

\* uart_v4.py: the port has timeout=2, readline() returns what it has when
\* no line end arrives in time (nothing at all on a silent line).
BurstWaitForStart ==
    /\ variant = "burst"
    /\ pc = "wait"
    /\ TokenStep(readline(rx))
    /\ tokens' = IF IsStart(readline(rx)) THEN tokens + 1 ELSE tokens
    /\ UNCHANGED fn_vars
    /\ UNCHANGED <<variant, port_open, chunk, buf, acc, records, rendered,
                   out, stalled, tainted, sent, frames>>

\* for _ in range(N_CAPTURES): the comprehension ends once it holds
\* N_CAPTURES results.
BurstsDoneOffByOne(n) == n > N_CAPTURES
BurstsDone(n) == n >= N_CAPTURES

\* while len(buf) < need
FrameSingleRead(b) == TRUE
FrameComplete(b) == Len(b) >= need

\* raise RuntimeError inside the comprehension: the finally clause closes
\* the port, records is never bound and the script ends before plotting.
RaiseKeepOpen ==
    /\ pc' = "aborted"
    /\ acc' = <<>>
    /\ UNCHANGED <<port_open, records, rendered>>
RaiseTimeout ==
    /\ pc' = "aborted"
    /\ port_open' = FALSE
    /\ acc' = <<>>
    /\ UNCHANGED <<records, rendered>>

\* ValueError inside the comprehension, likewise.
RaiseValueError ==
    /\ pc' = "crashed"
    /\ port_open' = FALSE
    /\ acc' = <<>>
    /\ UNCHANGED <<records, rendered>>

\* uart_v4.py: one pass of the read loop.
BurstRead ==
    /\ variant = "burst"
    /\ pc = "read"
    /\ chunk' = read(rx, need - Len(buf))
    /\ rx' = Drop(rx, Len(chunk'))
    /\ IF chunk' = <<>>
       THEN /\ RaiseTimeout
            /\ UNCHANGED <<buf, frames>>
       ELSE /\ buf' = buf \o chunk'
            /\ pc' = IF FrameComplete(buf') THEN "process" ELSE "read"
            /\ frames' = IF FrameComplete(buf') THEN Append(frames, buf') ELSE frames
            /\ UNCHANGED <<port_open, acc, records, rendered>>
    /\ UNCHANGED fn_vars
    /\ UNCHANGED <<variant, line, out, stalled, tainted, sent, discarded, wire,
                   tokens>>

\* uart_v4.py: the rest of acquire_one_burst and the comprehension taking
\* its result.
BurstProcess ==
    /\ variant = "burst"
    /\ pc = "process"
    /\ IF BurstRecord(buf).raised
       THEN RaiseValueError
       ELSE /\ acc' = Append(acc, BurstRecord(buf))
            /\ pc' = IF BurstsDone(Len(acc')) THEN "finish" ELSE "wait"
            /\ UNCHANGED port_open
    /\ line' = NoLine
    /\ discarded' = NoLine
    /\ chunk' = <<>>
    /\ buf' = <<>>
    /\ wire' = <<>>
    /\ UNCHANGED fn_vars
    /\ UNCHANGED <<variant, rx, records, rendered, out, stalled,
                   tainted, sent, tokens, frames>>

\* uart_v4.py: records is bound, the finally clause closes the port, and
\* the plotting loop draws every record.
BurstFinish ==
    /\ variant = "burst"
    /\ pc = "finish"
    /\ records' = acc
    /\ port_open' = FALSE
    /\ rendered' = acc
    /\ pc' = "done"
    /\ UNCHANGED fn_vars
    /\ UNCHANGED <<variant, rx, line, chunk, buf, acc, out, stalled, tainted,
                   sent, discarded, wire, tokens, frames>>

\* No function is under study while the acquisition loops run.
FnOff == input = <<>> /\ applied = FALSE /\ result = <<>>

\* No acquisition runs while a function is under study.
AcqOff ==
    /\ variant = "none"
    /\ pc = "off"
    /\ port_open = FALSE
    /\ rx = <<>> /\ line = NoLine /\ chunk = <<>> /\ buf = <<>>
    /\ acc = <<>> /\ records = <<>> /\ rendered = <<>>
    /\ out = NoReport /\ stalled = FALSE /\ tainted = FALSE
    /\ sent = 0 /\ discarded = NoLine /\ wire = <<>>
    /\ tokens = 0 /\ frames = <<>>

Init == AcqInit /\ FnOff

Next ==
    \/ \E seg \in Segments : Emit(seg)
    \/ StreamWaitForStart
    \/ StreamStall
    \/ StreamRead
    \/ StreamProcess
    \/ BurstWaitForStart
    \/ BurstRead
    \/ BurstProcess
    \/ BurstFinish

vars == <<acq_vars, fn_vars>>

Spec == Init /\ [][Next]_vars

(***************************************************************************)
(* Claims about the acquisition loops, checked under Spec.                 *)
(***************************************************************************)
\* C1: in both variants the token wait discards every line whose decoded,
\* trimmed text is not "START" (an empty, timed-out line included), leaves
\* the wait exactly at a line whose trimmed text is "START", and no payload
\* byte has been read while it waits.
C1_TokenWaitEndsAtStart ==
    /\ pc = "wait" =>
          /\ line # NoLine => strip(decode(line)) # START
          /\ chunk = <<>> /\ buf = <<>>
    /\ pc \in {"read", "process"} =>
          /\ line # NoLine /\ strip(decode(line)) = START
          /\ discarded # NoLine => strip(decode(discarded)) # START

\* A timed-out empty line was discarded and the wait then ended at the
\* START line that carried an undecodable byte and surrounding whitespace.
C1_Witness ==
    /\ variant = "burst" /\ pc = "read"
    /\ discarded = <<>>
    /\ line = SegNoisy

\* C2: the frame read hands on exactly `need` bytes, the bytes that followed
\* the START line in order, or fails with the timeout error, and it fails
\* exactly when a read returned nothing before `need` bytes were collected;
\* a shorter buffer is never handed on.
C2_FrameExactOrTimeout ==
    /\ pc = "process" => Len(buf) = need /\ buf = Take(wire, need)
    /\ pc = "aborted" => chunk = <<>> /\ Len(buf) < need
    /\ pc = "read" =>
          /\ Len(buf) < need
          /\ wire = buf \o rx
          /\ chunk = <<>> => buf = <<>>

\* A burst frame was completed by a read that returned fewer bytes than the
\* frame holds.
C2_Witness ==
    /\ variant = "burst" /\ pc = "process"
    /\ chunk # <<>> /\ Len(chunk) < Len(buf)

\* C3 (as claimed): a streaming cycle whose frame read met a silent
\* transport is aborted: it does not go on to processing and nothing is
\* reported for it.
C3_StalledCycleReportsNothing ==
    variant = "stream" => ~(stalled /\ pc = "process") /\ ~tainted

\* C4: a timeout while reading a burst ends the session: the port is closed,
\* records is never bound, nothing is drawn (the bursts already completed
\* included) and nothing more is acquired.
C4_TimeoutAbortsSession ==
    pc = "aborted" =>
        /\ ~port_open
        /\ records = <<>> /\ rendered = <<>> /\ acc = <<>>
        /\ ~ENABLED Next

\* The timeout came after a burst had been completed.
C4_Witness == pc = "aborted" /\ Len(frames) >= 1 /\ buf # <<>>

\* C5: the burst session runs wait -> read -> process once per burst, one
\* START line per burst, each burst finished before the next wait, and ends
\* with exactly N_CAPTURES records, the records of the frames in the order
\* they were acquired; then it acquires nothing more.
C5_ExactlyNBurstsInOrder ==
    variant = "burst" =>
        /\ pc = "wait" => tokens = Len(acc) /\ Len(frames) = Len(acc)
        /\ pc = "read" => tokens = Len(acc) + 1 /\ Len(frames) = Len(acc)
        /\ pc = "process" => tokens = Len(acc) + 1 /\ Len(frames) = Len(acc) + 1
        /\ pc \in {"wait", "read", "process"} => Len(acc) < N_CAPTURES
        /\ pc \in {"finish", "done"} =>
              /\ tokens = N_CAPTURES
              /\ Len(frames) = N_CAPTURES
              /\ acc = [k \in 1..N_CAPTURES |-> BurstRecord(frames[k])]
        /\ pc = "done" => records = acc /\ ~port_open /\ ~ENABLED Next

\* A session completed with two different bursts.
C5_Witness ==
    /\ pc = "done"
    /\ Len(records) = N_CAPTURES
    /\ records[1] # records[2]

(***************************************************************************)
(* ChannelDemultiplexer under study: np.frombuffer and the two slices on   *)
(* the data of a frame, data = ser.read(TOTAL_SAMPLES * 2), for scripts    *)
(* configured with TOTAL_SAMPLES from 0 to MaxTotalSamples codes.          *)
(***************************************************************************)
MaxTotalSamples == 4
BufferBytes == {0, 1, 255}

RECURSIVE SeqsUpTo(_, _)
SeqsUpTo(S, n) ==
    IF n = 0 THEN {<<>>}
    ELSE LET shorter == SeqsUpTo(S, n - 1)
         IN  shorter \cup {Append(q, a) : q \in {r \in shorter : Len(r) = n - 1}, a \in S}

\* adc_array = np.frombuffer(data, dtype=np.uint16); adc1 = adc_array[::2];
\* adc2 = adc_array[1::2]
DemuxSwapped(data) ==
    LET adc_array == frombuffer(data)
    IN  IF adc_array = ValueError THEN [raised |-> TRUE]
        ELSE [raised |-> FALSE, adc_array |-> adc_array,
              adc1 |-> OddSlice(adc_array), adc2 |-> EvenSlice(adc_array)]
Demux(data) ==
    LET adc_array == frombuffer(data)
    IN  IF adc_array = ValueError THEN [raised |-> TRUE]
        ELSE [raised |-> FALSE, adc_array |-> adc_array,
              adc1 |-> EvenSlice(adc_array), adc2 |-> OddSlice(adc_array)]

\* total_bytes = TOTAL_SAMPLES * 2; data = ser.read(total_bytes): the read
\* blocks until it has exactly total_bytes bytes, of any values.
DemuxInit ==
    /\ AcqOff
    /\ \E total_samples \in 0..MaxTotalSamples :
          LET total_bytes == total_samples * 2
          IN  input \in {q \in SeqsUpTo(BufferBytes, total_bytes) : Len(q) = total_bytes}
    /\ applied = FALSE
    /\ result = <<>>

ApplyDemux ==
    /\ ~applied
    /\ applied' = TRUE
    /\ result' = Demux(input)
    /\ UNCHANGED <<input, acq_vars>>

SpecDemux == DemuxInit /\ [][ApplyDemux]_vars

\* The 16-bit codes a byte buffer holds, whole elements only.
WholeCodes(data) ==
    [i \in 1..(Len(data) \div 2) |-> data[2 * i - 1] + 256 * data[2 * i]]
Interleave(a, b) ==
    [i \in 1..(Len(a) + Len(b)) |-> IF i % 2 = 1 THEN a[(i + 1) \div 2] ELSE b[i \div 2]]
\* s holds no code twice.
AllDistinct(s) == \A i, j \in 1..Len(s) : i # j => s[i] # s[j]

\* C6: for a buffer holding an even number of 16-bit codes, channel A is
\* the codes at even positions and channel B the codes at odd positions,
\* both in order and equally long, and interleaving A and B gives the
\* original code sequence back.
C6_DemuxInterleaves ==
    (applied /\ Len(input) % 4 = 0) =>
        /\ ~result.raised
        /\ Len(result.adc1) = Len(result.adc2)
        /\ Len(result.adc1) + Len(result.adc2) = Len(WholeCodes(input))
        /\ \A i \in 1..Len(result.adc1) : result.adc1[i] = WholeCodes(input)[2 * i - 1]
        /\ \A i \in 1..Len(result.adc2) : result.adc2[i] = WholeCodes(input)[2 * i]
        /\ Interleave(result.adc1, result.adc2) = WholeCodes(input)

\* A buffer of four different codes was demultiplexed into two channels of
\* two codes each: the first and third code, and the second and fourth.
C6_Witness ==
    /\ applied /\ Len(input) = 8
    /\ AllDistinct(WholeCodes(input))
    /\ ~result.raised
    /\ Len(result.adc1) = 2 /\ Len(result.adc2) = 2
    /\ result.adc1 = <<WholeCodes(input)[1], WholeCodes(input)[3]>>
    /\ result.adc2 = <<WholeCodes(input)[2], WholeCodes(input)[4]>>

(***************************************************************************)
(* PeakDetector under study: find_peaks on every series up to MaxSeries    *)
(* samples with values 0..MaxSample.                                       *)
(***************************************************************************)
MaxSeries == 5
MaxSample == 3
MaxDistance == 3
MaxProminence == 2

PeaksInit ==
    /\ AcqOff
    /\ input \in [x : SeqsUpTo(0..MaxSample, MaxSeries),
                  distance : 0..MaxDistance,
                  prominence : 0..MaxProminence]
    /\ applied = FALSE
    /\ result = <<>>

ApplyFindPeaks ==
    /\ ~applied
    /\ applied' = TRUE
    /\ \E order \in PeakOrders(input.x) :
          result' = find_peaks(input.x, input.distance, input.prominence, order)
    /\ UNCHANGED <<input, acq_vars>>

SpecPeaks == PeaksInit /\ [][ApplyFindPeaks]_vars

\* Index i (0-based) of x is a local maximum: the middle of a flat run that
\* is strictly higher than the samples on both sides of it.
IsLocalMax(x, i) ==
    \E l \in 1..i, r \in i..(Len(x) - 2) :
        /\ \A k \in l..r : x[k + 1] = x[i + 1]
        /\ x[l] < x[i + 1] /\ x[r + 2] < x[i + 1]
        /\ i = (l + r) \div 2
LocalMaxima(x) == {i \in 0..(Len(x) - 1) : IsLocalMax(x, i)}

\* The lowest sample between index i and the nearest higher sample on one
\* side of it (the end of the series when there is none).
BaseLeft(x, i) ==
    LET run == {a \in 0..i : \A k \in a..i : x[k + 1] <= x[i + 1]}
    IN  SeqMin([k \in 1..Cardinality(run) |-> x[i - k + 2]])
BaseRight(x, i) ==
    LET run == {b \in i..(Len(x) - 1) : \A k \in i..b : x[k + 1] <= x[i + 1]}
    IN  SeqMin([k \in 1..Cardinality(run) |-> x[i + k]])
Prominence(x, i) == x[i + 1] - Max2(BaseLeft(x, i), BaseRight(x, i))

\* C8: for min_distance >= 1 peak detection does not fail and returns a
\* strictly increasing sequence of valid indices, any two consecutive ones
\* at least min_distance apart, each a local maximum of prominence
\* >= min_prominence (so the result is empty when no sample qualifies).
C8_PeaksSpacedAndIncreasing ==
    (applied /\ input.distance >= 1) =>
        /\ result # ValueError
        /\ \A k \in 1..Len(result) :
              /\ result[k] \in 0..(Len(input.x) - 1)
              /\ IsLocalMax(input.x, result[k])
              /\ Prominence(input.x, result[k]) >= input.prominence
        /\ \A k \in 1..(Len(result) - 1) :
              /\ result[k] < result[k + 1]
              /\ result[k + 1] - result[k] >= input.distance

\* Two maxima closer than min_distance qualified and one was returned.
C8_Witness ==
    /\ applied
    /\ input.distance = 3
    /\ \E i, j \in LocalMaxima(input.x) :
          /\ i < j /\ j - i < input.distance
          /\ Prominence(input.x, i) >= input.prominence
          /\ Prominence(input.x, j) >= input.prominence
    /\ Len(result) = 1

\* The spacing filter over the maxima in `cands`, taking them in the order
\* `order` of their positions in the sorted sequence (last first).
SpacingFilter(cands, order, distance) ==
    Kept(SortedSeq(cands), select_by_peak_distance(SortedSeq(cands), order, distance))

\* C9 (as claimed): the result is the spacing filter applied to the
\* prominence-qualified maxima, prioritised by prominence.
C9_SpacingByProminence ==
    (applied /\ input.distance >= 1) =>
        LET qual == {i \in LocalMaxima(input.x) :
                        Prominence(input.x, i) >= input.prominence}
            prio == [k \in 1..Cardinality(qual) |->
                        Prominence(input.x, SortedSeq(qual)[k])]
        IN  \E order \in ArgSorts(prio) :
                result = SpacingFilter(qual, order, input.distance)

\* C9 (amended): of two local maxima closer than min_distance the lower one
\* is discarded, whatever the prominences, when the higher one is strictly
\* the highest local maximum within min_distance of itself; the higher one
\* is then returned exactly when its own prominence is >= min_prominence.
C9_SpacingByHeight ==
    (applied /\ input.distance >= 1) =>
        \A i, j \in LocalMaxima(input.x) :
            (/\ i # j
             /\ Abs(i - j) < input.distance
             /\ \A k \in LocalMaxima(input.x) :
                   (k # i /\ Abs(k - i) < input.distance) => input.x[k + 1] < input.x[i + 1])
            => /\ \A k \in 1..Len(result) : result[k] # j
               /\ (\E k \in 1..Len(result) : result[k] = i)
                     <=> Prominence(input.x, i) >= input.prominence

\* Two qualifying maxima closer than min_distance, the lower one the more
\* prominent: the higher one was returned.
C9_Witness ==
    /\ applied
    /\ \E i, j \in LocalMaxima(input.x) :
          /\ Abs(i - j) < input.distance
          /\ input.x[i + 1] > input.x[j + 1]
          /\ Prominence(input.x, j) > Prominence(input.x, i)
          /\ Prominence(input.x, i) >= input.prominence
          /\ result = <<i>>

(***************************************************************************)
(* RateEstimator under study: estimate_bpm on every strictly increasing    *)
(* peak sequence over a time axis of MaxAxis samples, one tick apart; the  *)
(* index MaxAxis, one past the axis, is among the peaks tried.             *)
(***************************************************************************)
MaxAxis == 6

BpmInit ==
    /\ AcqOff
    /\ input \in [peaks : {SortedSeq(P) : P \in SUBSET (0..MaxAxis)},
                  time_axis : {[i \in 1..MaxAxis |-> i - 1]},
                  ticks_per_second : {1, 2, SAMPLING_RATE}]
    /\ applied = FALSE
    /\ result = <<>>

ApplyEstimateBpm ==
    /\ ~applied
    /\ applied' = TRUE
    /\ result' = estimate_bpm(input.peaks, input.time_axis, input.ticks_per_second)
    /\ UNCHANGED <<input, acq_vars>>

SpecBpm == BpmInit /\ [][ApplyEstimateBpm]_vars

RECURSIVE Product(_)
Product(s) == IF s = <<>> THEN 1 ELSE s[1] * Product(Tail(s))

\* The times of the peaks, in ticks.
PeakTicks(peaks, axis) == [k \in 1..Len(peaks) |-> axis[peaks[k] + 1]]

\* p = (1/n) * sum of 60 * tps / dt[k], cross-multiplied: n is Len(dt).
IsMeanOfRates(p, dt, tps) ==
    p[1] * Len(dt) * Product(dt)
        = p[2] * 60 * tps * SumSeq([k \in 1..Len(dt) |-> Product(dt) \div dt[k]])

\* C10: with a time axis parallel to the peaks, rate estimation always
\* reports the peak count; with fewer than 2 peaks it reports "not enough
\* peaks" and no rate; with 2 or more it reports the mean of 60/dt over the
\* consecutive peak-time differences, which is exactly 60 for peaks at
\* 1, 2, 3, 4 s.
C10_RateIsMeanOfRates ==
    (applied /\ \A k \in 1..Len(input.peaks) : input.peaks[k] < Len(input.time_axis)) =>
        LET dt == Diff(PeakTicks(input.peaks, input.time_axis))
        IN  /\ ~result.raised
            /\ result.count = Len(input.peaks)
            /\ Len(input.peaks) < 2 => result.not_enough /\ result.avg_bpm = NoRate
            /\ Len(input.peaks) >= 2 =>
                  /\ ~result.not_enough
                  /\ result.avg_bpm # NoRate
                  /\ result.avg_bpm[2] > 0
                  /\ IsMeanOfRates(result.avg_bpm, dt, input.ticks_per_second)
            /\ (input.ticks_per_second = 1 /\ input.peaks = <<1, 2, 3, 4>>) =>
                  result.avg_bpm = <<60, 1>> /\ result.shown = {6000}

\* Peaks at 1, 2, 3, 4 s were reported as 4 peaks at exactly 60 per minute.
C10_Witness ==
    /\ applied
    /\ input.ticks_per_second = 1
    /\ input.peaks = <<1, 2, 3, 4>>
    /\ PeakTicks(input.peaks, input.time_axis) = <<1, 2, 3, 4>>
    /\ result.count = 4
    /\ result.avg_bpm = <<60, 1>>

(***************************************************************************)
(* The Savitzky-Golay script (uart_p3_v3.py) as a state machine.  The      *)
(* configured TOTAL_SAMPLES and the frame the device sends are the input:  *)
(* every total from 1 code to one pair more than two full windows, and     *)
(* frames of zero codes with at most one full-scale code.                  *)
(***************************************************************************)
SavgolMaxTotal == 2 * SAVGOL_WINDOW + 2
CodeLow == <<0, 0>>
CodeHigh == <<255, 15>>

SavgolNeed == 2 * input.total_samples

\* The k-th piece the device sends: a START line, then the codes of a frame.
SavgolPiece(k) ==
    LET at == k % (input.total_samples + 1)
    IN  IF at = 0 THEN SegStart
        ELSE IF at = input.pulse THEN CodeHigh ELSE CodeLow

SavgolInit ==
    /\ variant = "savgol"
    /\ pc = "wait"
    /\ port_open = TRUE
    /\ rx = <<>>
    /\ line = NoLine
    /\ chunk = <<>>
    /\ buf = <<>>
    /\ acc = <<>>
    /\ records = <<>>
    /\ rendered = <<>>
    /\ out = NoSavgolReport
    /\ stalled = FALSE
    /\ tainted = FALSE
    /\ sent = 0
    /\ discarded = NoLine
    /\ wire = <<>>
    /\ tokens = 0
    /\ frames = <<>>
    /\ input \in {c \in [total_samples : 1..SavgolMaxTotal, pulse : 0..SavgolMaxTotal] :
                     c.pulse <= c.total_samples}
    /\ applied = FALSE
    /\ result = <<>>

SavgolEmit ==
    /\ variant = "savgol"
    /\ pc \in {"wait", "read", "process"}
    /\ sent < SavgolCycles * (input.total_samples + 1)
    /\ sent' = sent + 1
    /\ rx' = rx \o SavgolPiece(sent)
    /\ wire' = IF pc = "read" THEN wire \o SavgolPiece(sent) ELSE wire
    /\ UNCHANGED fn_vars
    /\ UNCHANGED <<variant, pc, port_open, line, chunk, buf, acc, records,
                   rendered, out, stalled, tainted, discarded, tokens, frames>>

\* uart_p3_v3.py: the port has no timeout, readline() returns at a line end.
SavgolWaitForStart ==
    /\ variant = "savgol"
    /\ pc = "wait"
    /\ HasLF(rx)
    /\ TokenStep(readline(rx))
    /\ UNCHANGED fn_vars
    /\ UNCHANGED <<variant, port_open, chunk, buf, acc, records, rendered,
                   out, stalled, tainted, sent, tokens, frames>>

\* uart_p3_v3.py: data = ser.read(total_bytes) returns once total_bytes
\* bytes have arrived.
SavgolRead ==
    /\ variant = "savgol"
    /\ pc = "read"
    /\ Len(rx) >= SavgolNeed
    /\ chunk' = read(rx, SavgolNeed)
    /\ buf' = chunk'
    /\ rx' = Drop(rx, SavgolNeed)
    /\ pc' = "process"
    /\ UNCHANGED fn_vars
    /\ UNCHANGED <<variant, port_open, line, acc, records, rendered, out,
                   stalled, tainted, sent, discarded, wire, tokens, frames>>

\* The series find_peaks is given, <<>> when the cycle does not get there.
SavgolSmooth(v) ==
    IF Len(v) >= SAVGOL_WINDOW
    THEN savgol_filter(v, SAVGOL_WINDOW, SAVGOL_POLYORDER) ELSE <<>>
SavgolSmooth1(data) == SavgolSmooth(Volts(EvenSlice(frombuffer(data))))
SavgolSmooth2(data) == SavgolSmooth(Mirror(Volts(OddSlice(frombuffer(data)))))

\* uart_p3_v3.py: the rest of acquire_and_plot_voltages, and the main loop
\* calling it again; an exception ends the script.
SavgolProcess ==
    /\ variant = "savgol"
    /\ pc = "process"
    /\ \E o1 \in PeakOrders(SavgolSmooth1(buf)), o2 \in PeakOrders(SavgolSmooth2(buf)) :
          /\ out' = SavgolCycle(buf, input.total_samples, o1, o2)
          /\ pc' = IF out'.raised THEN "crashed" ELSE "wait"
    /\ frames' = Append(frames, buf)
    /\ line' = NoLine
    /\ discarded' = NoLine
    /\ chunk' = <<>>
    /\ buf' = <<>>
    /\ wire' = <<>>
    /\ UNCHANGED fn_vars
    /\ UNCHANGED <<variant, port_open, rx, acc, records, rendered, stalled,
                   tainted, sent, tokens>>

SavgolNext ==
    \/ SavgolEmit
    \/ SavgolWaitForStart
    \/ SavgolRead
    \/ SavgolProcess

SpecSavgol == SavgolInit /\ [][SavgolNext]_vars

\* The two channel series of the last frame handed to the cycle.
LastSeries1 == Volts(EvenSlice(frombuffer(frames[Len(frames)])))
LastSeries2 == Mirror(Volts(OddSlice(frombuffer(frames[Len(frames)]))))

\* C11: in the Savitzky-Golay script, once a cycle has processed a frame in
\* which a channel's series is shorter than the window, the condition was
\* reported, the script has not crashed, that cycle produced no export, no
\* printed metrics and no plot update, and the script went back to the
\* token wait with nothing left over from the cycle.
C11_ShortSeriesReportedNoCrash ==
    (/\ Len(frames) > 0
     /\ \/ Len(LastSeries1) < SAVGOL_WINDOW
        \/ Len(LastSeries2) < SAVGOL_WINDOW) =>
        /\ pc # "crashed"
        /\ out = [NoSavgolReport EXCEPT !.reported = TRUE]
        /\ pc = "wait" => line = NoLine /\ buf = <<>>

\* What the script does guarantee: the same whenever the first channel's
\* series is the short one.
C11_FirstChannelShortReported ==
    (Len(frames) > 0 /\ Len(LastSeries1) < SAVGOL_WINDOW) =>
        /\ pc # "crashed"
        /\ out = [NoSavgolReport EXCEPT !.reported = TRUE]
        /\ pc = "wait" => line = NoLine /\ buf = <<>>

\* A cycle whose first series filled the window and whose second series did
\* not has ended in savgol_filter's ValueError: nothing reported, the
\* script gone.
C11_Witness ==
    /\ Len(frames) > 0
    /\ Len(LastSeries1) >= SAVGOL_WINDOW
    /\ Len(LastSeries2) < SAVGOL_WINDOW
    /\ pc = "crashed"
    /\ out = [NoSavgolReport EXCEPT !.raised = TRUE]

(***************************************************************************)
(* The conditioners as calls: what a call returns and what it leaves in    *)
(* the array that was passed to it.  The series are the voltages of up to  *)
(* MaxConditioned codes.                                                   *)
(***************************************************************************)
MaxConditioned == 3
ConditionerCodes == {0, 100, 300, 4095}
MaxWindow == 2

\* v in the unit of filter_voltage's result, 1/len(v) of its own.
Scaled(v) == [i \in 1..Len(v) |-> Len(v) * v[i]]

\* moving_average(signal, window_size): np.convolve builds a new array and
\* writes nothing to signal.
moving_average_call(signal, window_size) ==
    [returned |-> moving_average(signal, window_size), arg |-> signal]

\* filter_voltage(v, thresh): v[np.abs(v - mean) <= thresh] = mean writes
\* into the caller's array, and return v hands that same array back.
filter_voltage_call(v, thresh) ==
    LET after == filter_voltage(v, thresh)
    IN  [returned |-> after, arg |-> after]

\* savgol_filter(x, ...): x is read, the result is a new array.
savgol_filter_call(x, window_length, polyorder) ==
    [returned |-> savgol_filter(x, window_length, polyorder), arg |-> x]

\* lowpass_filter(data): butter and filtfilt read data, the result is a new
\* array.
lowpass_filter_call(data, cutoff, fs, order) ==
    [returned |-> lowpass_filter(data, cutoff, fs, order), arg |-> data]

\* The voltages of L codes, all zero but a full-scale one at position q.
PulseSeries(L, q) == Volts([i \in 1..L |-> IF i = q THEN MAX_CODE ELSE 0])

\* Series one sample short of what a filter needs, just enough, and one more.
SeriesAround(least) ==
    {PulseSeries(L, q) : L \in (least - 1)..(least + 1), q \in 0..(least + 1)}

ConditionerInit ==
    /\ AcqOff
    /\ input \in
          [strategy : {"moving_average"},
           v : {Volts(c) : c \in SeqsUpTo(ConditionerCodes, MaxConditioned)},
           param : 1..MaxWindow]
          \cup
          [strategy : {"filter_voltage"},
           v : {Volts(c) : c \in SeqsUpTo(ConditionerCodes, MaxConditioned)},
           param : {0, NOISE_DEADBAND}]
          \cup
          [strategy : {"savgol_filter"},
           v : SeriesAround(SAVGOL_WINDOW),
           param : {SAVGOL_WINDOW}]
          \cup
          [strategy : {"lowpass_filter"},
           v : SeriesAround(3 * (FILTER_ORDER + 1) + 1),
           param : {FILTER_ORDER}]
    /\ applied = FALSE
    /\ result = <<>>

ApplyMovingAverage ==
    /\ ~applied
    /\ input.strategy = "moving_average"
    /\ applied' = TRUE
    /\ result' = moving_average_call(input.v, input.param)
    /\ UNCHANGED <<input, acq_vars>>

ApplyFilterVoltage ==
    /\ ~applied
    /\ input.strategy = "filter_voltage"
    /\ applied' = TRUE
    /\ result' = filter_voltage_call(input.v, input.param)
    /\ UNCHANGED <<input, acq_vars>>

ApplySavgolFilter ==
    /\ ~applied
    /\ input.strategy = "savgol_filter"
    /\ applied' = TRUE
    /\ result' = savgol_filter_call(input.v, input.param, SAVGOL_POLYORDER)
    /\ UNCHANGED <<input, acq_vars>>

ApplyLowpassFilter ==
    /\ ~applied
    /\ input.strategy = "lowpass_filter"
    /\ applied' = TRUE
    /\ result' = lowpass_filter_call(input.v, CUTOFF_FREQ, SAMPLING_RATE, input.param)
    /\ UNCHANGED <<input, acq_vars>>

ConditionerNext ==
    \/ ApplyMovingAverage
    \/ ApplyFilterVoltage
    \/ ApplySavgolFilter
    \/ ApplyLowpassFilter

SpecConditioner == ConditionerInit /\ [][ConditionerNext]_vars

\* Sample i of v lies within thresh mV of the mean of v (v in 1/4095 mV).
InBand(v, i, thresh) ==
    Abs(Len(v) * v[i] - SumSeq(v)) <= thresh * MAX_CODE * Len(v)

\* The dead-band result the text describes, in units of 1/len(v) of v's.
IsDeadBandOf(r, v, thresh) ==
    /\ Len(r) = Len(v)
    /\ \A i \in 1..Len(v) :
          r[i] = IF InBand(v, i, thresh) THEN SumSeq(v) ELSE Len(v) * v[i]

\* The array passed to the call holds after the call what it held before.
ArgUnchanged ==
    IF input.strategy = "filter_voltage"
    THEN result.arg = Scaled(input.v)
    ELSE result.arg = input.v

\* C12: a conditioner call leaves the series passed to it unchanged, and the
\* dead-band quantizer returns a series of the input's length in which each
\* sample within threshold of the input's mean is that mean and every other
\* sample is the input sample.
C12_ConditionersArePure ==
    applied =>
        /\ ArgUnchanged
        /\ input.strategy = "filter_voltage" =>
              IsDeadBandOf(result.returned, input.v, input.param)

\* What filter_voltage does guarantee: the returned series is the dead-band
\* result, and it is the caller's array, which now holds that result too.
C12_DeadBandReturnedInPlace ==
    (applied /\ input.strategy = "filter_voltage") =>
        /\ IsDeadBandOf(result.returned, input.v, input.param)
        /\ result.arg = result.returned

\* filter_voltage was called on 0, 80.6 and 3300 mV: the array passed in
\* now holds the mean of the series in place of some sample, and the
\* far sample as it was.
C12_Witness ==
    /\ applied
    /\ input.strategy = "filter_voltage"
    /\ input.param = NOISE_DEADBAND
    /\ Len(input.v) = 3
    /\ \E i \in 1..3 : InBand(input.v, i, input.param) /\ result.arg[i] # 3 * input.v[i]
    /\ \E i \in 1..3 : ~InBand(input.v, i, input.param) /\ result.arg[i] = 3 * input.v[i]

(***************************************************************************)
(* Smoothing and its time axis in uart_p3.py, for a script configured with *)
(* TOTAL_SAMPLES = the number of codes of the frame and MOVING_AVG_WINDOW  *)
(* = window: frames of up to MaxFrame codes, windows up to MaxSmoothWindow.*)
(***************************************************************************)
MaxFrame == 8
MaxSmoothWindow == 3
FrameCodes == {0, 4095}

\* uart_p3.py lines 83-98 and 113-114 on the codes of a frame.  A
\* moving_average that raised leaves <<>> for both peak sets.
Smoothing(codes, window, order1, order2) ==
    LET v_adc1 == Volts(EvenSlice(codes))
        v_adc2 == Mirror(Volts(OddSlice(codes)))
        sample_count == Len(codes) \div 2
        time_axis == linspace_axis(sample_count)
        time_smooth == SliceTo(time_axis, sample_count - window + 1)
        v_smooth1 == moving_average(v_adc1, window)
        v_smooth2 == moving_average(v_adc2, window)
        prom == MIN_PROMINENCE * MAX_CODE * window
        raised == v_smooth1 = ValueError \/ v_smooth2 = ValueError
    IN  [raised |-> raised,
         v_adc1 |-> v_adc1, v_adc2 |-> v_adc2,
         sample_count |-> sample_count, time_smooth |-> time_smooth,
         v_smooth1 |-> v_smooth1, v_smooth2 |-> v_smooth2,
         peaks1 |-> IF raised THEN <<>>
                    ELSE find_peaks(v_smooth1, MIN_DISTANCE_SAMPLES, prom, order1),
         peaks2 |-> IF raised THEN <<>>
                    ELSE find_peaks(v_smooth2, MIN_DISTANCE_SAMPLES, prom, order2)]

SmoothingInit ==
    /\ AcqOff
    /\ input \in [codes : SeqsUpTo(FrameCodes, MaxFrame), window : 1..MaxSmoothWindow]
    /\ applied = FALSE
    /\ result = <<>>

ApplySmoothing ==
    /\ ~applied
    /\ applied' = TRUE
    /\ \E o1 \in PeakOrders(moving_average(Volts(EvenSlice(input.codes)), input.window)),
          o2 \in PeakOrders(moving_average(Mirror(Volts(OddSlice(input.codes))), input.window)) :
          result' = Smoothing(input.codes, input.window, o1, o2)
    /\ UNCHANGED <<input, acq_vars>>

SpecSmoothing == SmoothingInit /\ [][ApplySmoothing]_vars

\* s holds, in units of 1/W, the mean of each full window of W samples of
\* v and nothing else: the first window's sum, then each sum from the one
\* before by adding the sample that enters and removing the one that leaves.
IsWindowMeans(s, v, W) ==
    /\ Len(s) = Len(v) - W + 1
    /\ Len(s) >= 1
    /\ s[1] = SumSeq(SubSeq(v, 1, W))
    /\ \A k \in 1..(Len(s) - 1) : s[k + 1] = s[k] + v[k + W] - v[k]

\* Every peak index is an index of the axis (0-based).
PeaksOnAxis(peaks, axis) == \A k \in 1..Len(peaks) : peaks[k] < Len(axis)

\* C13: for every window W >= 1 and every series, of any length L, the
\* moving average has L - W + 1 elements, the means of the full windows,
\* and the smoothed time axis has that length too, so that every peak index
\* is an index of it.
C13_SmoothedLengthForEverySeries ==
    applied =>
        /\ IsWindowMeans(result.v_smooth1, result.v_adc1, input.window)
        /\ IsWindowMeans(result.v_smooth2, result.v_adc2, input.window)
        /\ Len(result.time_smooth) = Len(result.v_smooth1)
        /\ Len(result.time_smooth) = Len(result.v_smooth2)
        /\ PeaksOnAxis(result.peaks1, result.time_smooth)
        /\ PeaksOnAxis(result.peaks2, result.time_smooth)

\* Where the script does what C13 says: a series at least as long as the
\* window is smoothed to the means of its full windows, and when it has
\* sample_count samples the smoothed time axis has the same length and
\* every peak index is an index of it.
C13_HoldsWhenWindowFits ==
    applied =>
        \A ch \in {<<result.v_adc1, result.v_smooth1, result.peaks1>>,
                    <<result.v_adc2, result.v_smooth2, result.peaks2>>} :
            (Len(ch[1]) >= input.window) =>
                /\ IsWindowMeans(ch[2], ch[1], input.window)
                /\ Len(ch[1]) = result.sample_count =>
                      /\ Len(result.time_smooth) = Len(ch[2])
                      /\ PeaksOnAxis(ch[3], result.time_smooth)

\* A frame of one code per channel went through a window of 3 unchecked:
\* nothing raised, each one-sample series came back as three values, none
\* the mean of a full window, and the smoothed time axis is empty.
C13_Witness ==
    /\ applied
    /\ input.window = 3
    /\ Len(input.codes) = 2
    /\ ~result.raised
    /\ Len(result.v_adc1) = 1 /\ Len(result.v_adc2) = 1
    /\ Len(result.v_smooth1) = 3 /\ Len(result.v_smooth2) = 3
    /\ ~IsWindowMeans(result.v_smooth1, result.v_adc1, input.window)
    /\ Len(result.time_smooth) = 0

====
